---- MODULE Spec2Model ----
(***************************************************************************)
(* BraTSDataModule (src/src/data_module.py): the dataset indexer setup()   *)
(* and the two loader builders, over a filesystem root that may change     *)
(* between calls.                                                          *)
(*                                                                         *)
(* A patient folder is identified by a number i of 1..MaxPatients, which   *)
(* stands for the folder name BraTS-GLI-0000i: the lexicographic order of  *)
(* the names, which sorted() uses, is the numeric order of the numbers.    *)
(* A path is a record [dir, name] (os.path.join(dir, name)); a file name   *)
(* f"{pat_id}-t1n.nii.gz" is the record [id, suffix].                      *)
(***************************************************************************)
EXTENDS Integers, Sequences, FiniteSets, TLC

\* Bounds of the model.
MaxPatients == 3
MaxBatchSize == 2

\* Program constants.
test_size_percent == 20
default_batch_size == 1
val_batch_size == 1
default_num_workers == 4
default_cache_percent == 100
roi_edge == 64

Patients == 1..MaxPatients

data_dir == "Dataset"

T1N == "-t1n.nii.gz"
T1C == "-t1c.nii.gz"
T2W == "-t2w.nii.gz"
T2F == "-t2f.nii.gz"
SEG == "-seg.nii.gz"

Suffixes == {T1N, T1C, T2W, T2F, SEG}

\* The contents a patient folder is given: complete, only the two checked
\* files, the label missing, the first modality missing.
FolderContents == {Suffixes, {T1N, SEG}, Suffixes \ {SEG}, Suffixes \ {T1N}}

Absent == [kind |-> "absent", files |-> {}]
PlainFile == [kind |-> "file", files |-> {}]
Folder(files) == [kind |-> "dir", files |-> files]

Entries == {Absent, PlainFile} \cup {Folder(c) : c \in FolderContents}

VARIABLES
    fs,           \* the root directory: entry name -> Absent, PlainFile or Folder
    batch_size,   \* module -> self.batch_size
    train_files,  \* module -> self.train_files
    val_files,    \* module -> self.val_files
    call,         \* the most recent call: [op, self]
    raised,       \* the exception the most recent call raised, or "none"
    loader,       \* <<the DataLoader the most recent call returned>>, or <<>>
    scanned       \* history: module -> the folders that passed the file test
                  \* in its most recent setup() that completed

vars == <<fs, batch_size, train_files, val_files, call, raised, loader, scanned>>

Modules == DOMAIN train_files

----------------------------------------------------------------------------
\* os.path and glob over fs

join(dir, name) == [dir |-> dir, name |-> name]

basename(path) == path.name

FileName(pat_id, suffix) == [id |-> pat_id, suffix |-> suffix]

\* A filter that keeps plain files too.
isdir_any(d) == fs[d.name].kind # "absent"

isdir(d) == fs[d.name].kind = "dir"

exists(path) ==
    /\ fs[path.dir.name].kind = "dir"
    /\ path.name.id = path.dir.name
    /\ path.name.suffix \in fs[path.dir.name].files

\* glob.glob(os.path.join(data_dir, "*")): every entry of the root, in the
\* order the filesystem lists them, which is any order.
glob ==
    LET present == {p \in Patients : fs[p].kind # "absent"}
        n == Cardinality(present)
    IN  {[i \in 1..n |-> join(data_dir, f[i])] :
            f \in {g \in [1..n -> present] : \A i, j \in 1..n : g[i] = g[j] => i = j}}

\* The listing left in the order glob returned it.
unsorted(paths) == paths

sorted(paths) == SortSeq(paths, LAMBDA a, b : a.name < b.name)

----------------------------------------------------------------------------
\* setup(): the record of one patient folder, and the file test

\* The second and third modality in each other's place.
make_record_swapped(pat_path) ==
    LET pat_id == basename(pat_path)
        t1 == join(pat_path, FileName(pat_id, T1N))
        t1ce == join(pat_path, FileName(pat_id, T1C))
        t2 == join(pat_path, FileName(pat_id, T2W))
        flair == join(pat_path, FileName(pat_id, T2F))
        seg == join(pat_path, FileName(pat_id, SEG))
    IN  [image |-> <<t1, t2, t1ce, flair>>, label |-> seg]

make_record(pat_path) ==
    LET pat_id == basename(pat_path)
        t1 == join(pat_path, FileName(pat_id, T1N))
        t1ce == join(pat_path, FileName(pat_id, T1C))
        t2 == join(pat_path, FileName(pat_id, T2W))
        flair == join(pat_path, FileName(pat_id, T2F))
        seg == join(pat_path, FileName(pat_id, SEG))
    IN  [image |-> <<t1, t1ce, t2, flair>>, label |-> seg]

files_exist(pat_path) ==
    LET rec == make_record(pat_path)
    IN  exists(rec.image[1]) /\ exists(rec.label)

\* The for loop of setup(): the records of the folders that pass the test,
\* in the order of patient_dirs.
build_data_list(patient_dirs) ==
    LET kept == SelectSeq(patient_dirs, files_exist)
    IN  [i \in 1..Len(kept) |-> make_record(kept[i])]

----------------------------------------------------------------------------
\* sklearn.model_selection.train_test_split(data_list, test_size=0.2,
\* random_state=42), the library call of setup()

\* floor(test_size * n_samples)
n_test_floor(n_samples) == (test_size_percent * n_samples) \div 100

\* ceil(test_size * n_samples)
n_test_of(n_samples) == (test_size_percent * n_samples + 99) \div 100

\* numpy.random.RandomState(42).permutation(n), which random_state=42 makes
\* the split draw: the Mersenne Twister seeded with 42 and the shuffle of
\* arange(n), for the n of the model (0-based indices, as numpy returns them).
permutation(n) ==
    CASE n = 0 -> <<>>
      [] n = 1 -> <<0>>
      [] n = 2 -> <<1, 0>>
      [] n = 3 -> <<0, 1, 2>>
      [] n = 4 -> <<1, 3, 0, 2>>
      [] n = 5 -> <<1, 4, 2, 0, 3>>
      [] n = 6 -> <<0, 1, 5, 2, 4, 3>>

\* The train list indexed from the start of the permutation, so that it
\* shares the test list's indices.
train_test_split_overlap(data_list) ==
    LET n_samples == Len(data_list)
        n_test == (test_size_percent * n_samples + 99) \div 100
        n_train == n_samples - n_test
        perm == permutation(n_samples)
    IN  IF n_train = 0
        THEN [raised |-> "ValueError", train |-> <<>>, test |-> <<>>]
        ELSE [raised |-> "none",
              train |-> [i \in 1..n_train |-> data_list[perm[i] + 1]],
              test |-> [i \in 1..n_test |-> data_list[perm[i] + 1]]]

\* [raised, train, test]: ValueError when the train set would be empty,
\* else the first n_test indices of the permutation index the test list and
\* the rest index the train list.
train_test_split(data_list) ==
    LET n_samples == Len(data_list)
        n_test == n_test_of(n_samples)
        n_train == n_samples - n_test
        perm == permutation(n_samples)
    IN  IF n_train = 0
        THEN [raised |-> "ValueError", train |-> <<>>, test |-> <<>>]
        ELSE [raised |-> "none",
              train |-> [i \in 1..n_train |-> data_list[perm[n_test + i] + 1]],
              test |-> [i \in 1..n_test |-> data_list[perm[i] + 1]]]

----------------------------------------------------------------------------
\* setup() as a function of the listing glob returned and of the two fields:
\* [raised, train_files, val_files], the exception and the fields afterwards.

\* train_files assigned the scanned records before the split is made.
setup_result_early(listing, old_train, old_val) ==
    LET patient_dirs == SelectSeq(SortSeq(listing, LAMBDA a, b : a.name < b.name),
                                  LAMBDA d : fs[d.name].kind = "dir")
        kept == SelectSeq(patient_dirs,
                          LAMBDA d : {T1N, SEG} \subseteq fs[d.name].files)
        data_list == [i \in 1..Len(kept) |->
                        [image |-> <<join(kept[i], FileName(kept[i].name, T1N)),
                                     join(kept[i], FileName(kept[i].name, T1C)),
                                     join(kept[i], FileName(kept[i].name, T2W)),
                                     join(kept[i], FileName(kept[i].name, T2F))>>,
                         label |-> join(kept[i], FileName(kept[i].name, SEG))]]
        n_test == (test_size_percent * Len(data_list) + 99) \div 100
        n_train == Len(data_list) - n_test
        perm == permutation(Len(data_list))
    IN  IF Len(patient_dirs) = 0
        THEN [raised |-> "FileNotFoundError",
              train_files |-> old_train, val_files |-> old_val]
        ELSE IF n_train = 0
        THEN [raised |-> "ValueError",
              train_files |-> data_list, val_files |-> old_val]
        ELSE [raised |-> "none",
              train_files |-> [i \in 1..n_train |-> data_list[perm[n_test + i] + 1]],
              val_files |-> [i \in 1..n_test |-> data_list[perm[i] + 1]]]

setup_result(listing, old_train, old_val) ==
    LET patient_dirs == SelectSeq(sorted(listing), isdir)
        data_list == build_data_list(patient_dirs)
        split == train_test_split(data_list)
    IN  IF Len(patient_dirs) = 0
        THEN [raised |-> "FileNotFoundError",
              train_files |-> old_train, val_files |-> old_val]
        ELSE IF split.raised # "none"
        THEN [raised |-> split.raised,
              train_files |-> old_train, val_files |-> old_val]
        ELSE [raised |-> "none",
              train_files |-> split.train, val_files |-> split.test]

\* The folders of the root that have both checked files.
ValidFolders ==
    {p \in Patients : fs[p].kind = "dir" /\ {T1N, SEG} \subseteq fs[p].files}

Subdirectories == {p \in Patients : fs[p].kind = "dir"}

----------------------------------------------------------------------------
\* The loaders

train_loader(self) ==
    [data |-> train_files[self],
     transform |-> "train",
     roi_size |-> <<roi_edge, roi_edge, roi_edge>>,
     cache_rate |-> default_cache_percent,
     num_workers |-> default_num_workers,
     batch_size |-> batch_size[self],
     shuffle |-> TRUE,
     pin_memory |-> TRUE]

\* The validation loader given the configured batch size.
val_loader_configured(self) ==
    [data |-> val_files[self],
     transform |-> "val",
     roi_size |-> <<>>,
     cache_rate |-> default_cache_percent,
     num_workers |-> default_num_workers,
     batch_size |-> batch_size[self],
     shuffle |-> FALSE,
     pin_memory |-> FALSE]

val_loader(self) ==
    [data |-> val_files[self],
     transform |-> "val",
     roi_size |-> <<>>,
     cache_rate |-> default_cache_percent,
     num_workers |-> default_num_workers,
     batch_size |-> val_batch_size,
     shuffle |-> FALSE,
     pin_memory |-> FALSE]

----------------------------------------------------------------------------
\* Initial states: __init__ of each module, with batch_size drawn from sizes,
\* over any root.

NotScanned == [done |-> FALSE, valid |-> {}]

InitFor(modules, sizes) ==
    /\ fs \in [Patients -> Entries]
    /\ batch_size \in [modules -> sizes]
    /\ train_files = [m \in modules |-> <<>>]
    /\ val_files = [m \in modules |-> <<>>]
    /\ call = [op |-> "__init__", self |-> "dm"]
    /\ raised = "none"
    /\ loader = <<>>
    /\ scanned = [m \in modules |-> NotScanned]

\* One module with the default batch_size.
Init == InitFor({"dm"}, {default_batch_size})

\* One module with any configured batch_size.
InitLoaders == InitFor({"dm"}, 1..MaxBatchSize)

\* Two modules over the same root.
InitPair == InitFor({"dm", "dm2"}, {default_batch_size})

----------------------------------------------------------------------------
\* The root changes: a patient folder is written, a plain file is written,
\* an entry is removed.

PutFolder(p, files) ==
    /\ fs[p] # Folder(files)
    /\ fs' = [fs EXCEPT ![p] = Folder(files)]
    /\ UNCHANGED <<batch_size, train_files, val_files, call, raised, loader, scanned>>

PutPlainFile(p) ==
    /\ fs[p] # PlainFile
    /\ fs' = [fs EXCEPT ![p] = PlainFile]
    /\ UNCHANGED <<batch_size, train_files, val_files, call, raised, loader, scanned>>

Remove(p) ==
    /\ fs[p] # Absent
    /\ fs' = [fs EXCEPT ![p] = Absent]
    /\ UNCHANGED <<batch_size, train_files, val_files, call, raised, loader, scanned>>

----------------------------------------------------------------------------
\* The calls

Setup(self) ==
    \E listing \in glob :
        LET r == setup_result(listing, train_files[self], val_files[self])
        IN  /\ train_files' = [train_files EXCEPT ![self] = r.train_files]
            /\ val_files' = [val_files EXCEPT ![self] = r.val_files]
            /\ raised' = r.raised
            /\ call' = [op |-> "setup", self |-> self]
            /\ loader' = <<>>
            /\ scanned' = IF r.raised = "none"
                          THEN [scanned EXCEPT ![self] =
                                    [done |-> TRUE, valid |-> ValidFolders]]
                          ELSE scanned
            /\ UNCHANGED <<fs, batch_size>>

TrainDataloader(self) ==
    /\ loader' = <<train_loader(self)>>
    /\ call' = [op |-> "train_dataloader", self |-> self]
    /\ raised' = "none"
    /\ UNCHANGED <<fs, batch_size, train_files, val_files, scanned>>

ValDataloader(self) ==
    /\ loader' = <<val_loader(self)>>
    /\ call' = [op |-> "val_dataloader", self |-> self]
    /\ raised' = "none"
    /\ UNCHANGED <<fs, batch_size, train_files, val_files, scanned>>

\* The indexer over a root that changes between the calls.
Next ==
    \/ \E p \in Patients, files \in FolderContents : PutFolder(p, files)
    \/ \E p \in Patients : PutPlainFile(p)
    \/ \E p \in Patients : Remove(p)
    \/ \E self \in Modules : Setup(self)

Spec == Init /\ [][Next]_vars

\* The indexer and the loaders of one module, any batch_size, over a root
\* that stays as it is.
NextLoaders ==
    \/ \E self \in Modules : Setup(self)
    \/ \E self \in Modules : TrainDataloader(self)
    \/ \E self \in Modules : ValDataloader(self)

SpecLoaders == InitLoaders /\ [][NextLoaders]_vars

\* Two modules calling setup() over a root that stays as it is.
NextPair == \E self \in Modules : Setup(self)

SpecPair == InitPair /\ [][NextPair]_vars

----------------------------------------------------------------------------
\* What the claims speak of

\* The step is a call of setup() on module m (the root changes in no call).
IsSetupStep(m) == call'.op = "setup" /\ call'.self = m /\ fs' = fs

\* The state is the one a call of setup() on module m left.
AfterSetup(m) == call.op = "setup" /\ call.self = m

Range(seq) == {seq[i] : i \in 1..Len(seq)}

NoDuplicates(seq) == \A i, j \in 1..Len(seq) : seq[i] = seq[j] => i = j

\* <root>/P/P<suffix>
PathOf(P, suffix) ==
    [dir |-> [dir |-> data_dir, name |-> P],
     name |-> [id |-> P, suffix |-> suffix]]

\* The record of patient folder P, as the file layout states it.
RecordOf(P) ==
    [image |-> <<PathOf(P, "-t1n.nii.gz"), PathOf(P, "-t1c.nii.gz"),
                 PathOf(P, "-t2w.nii.gz"), PathOf(P, "-t2f.nii.gz")>>,
     label |-> PathOf(P, "-seg.nii.gz")]

\* ceil(0.2 * n) and round(0.8 * n), in integers (0.8 * n is never a tie)
CeilFifth(n) == (n + 4) \div 5
RoundFourFifths(n) == (8 * n + 5) \div 10

AllFoldersValid == Subdirectories # {} /\ Subdirectories = ValidFolders

----------------------------------------------------------------------------
\* C1 (as stated): whenever setup() completes on a root whose N >= 1 patient
\* folders are all valid, len(train_files) = round(0.8 * N) and
\* len(val_files) = N - round(0.8 * N).  (Whether setup() completes for
\* N = 1 is C2's question.)
C1_RoundedSplit ==
    [][\A m \in Modules :
         (IsSetupStep(m) /\ AllFoldersValid /\ raised' = "none") =>
            LET N == Cardinality(ValidFolders)
            IN  /\ Len(train_files'[m]) = RoundFourFifths(N)
                /\ Len(val_files'[m]) = N - RoundFourFifths(N)]_vars

\* C1 (amended): on a root whose N >= 1 patient folders are all valid,
\* setup() with N >= 2 produces exactly N records, len(val_files) =
\* ceil(0.2 * N) and len(train_files) = N - ceil(0.2 * N), no record in both
\* lists; with N = 1 the split raises ValueError and both lists stay as they
\* were.
C1_CeilSplit ==
    [][\A m \in Modules :
         (IsSetupStep(m) /\ AllFoldersValid) =>
            LET N == Cardinality(ValidFolders)
            IN  IF N = 1
                THEN /\ raised' = "ValueError"
                     /\ train_files'[m] = train_files[m]
                     /\ val_files'[m] = val_files[m]
                ELSE /\ raised' = "none"
                     /\ Len(val_files'[m]) = CeilFifth(N)
                     /\ Len(train_files'[m]) = N - CeilFifth(N)
                     /\ Len(train_files'[m]) + Len(val_files'[m]) = N
                     /\ Range(train_files'[m]) \cap Range(val_files'[m]) = {}]_vars

\* A completed setup() over three folders, all valid: two train, one val.
C1_Witness ==
    /\ AfterSetup("dm") /\ raised = "none"
    /\ AllFoldersValid /\ Cardinality(ValidFolders) = 3
    /\ scanned["dm"].valid = ValidFolders
    /\ Len(train_files["dm"]) = 2 /\ Len(val_files["dm"]) = 1

\* C2: with exactly one valid patient record in the root, setup() completes
\* with train_files holding that record and val_files empty.
C2_SingleRecord ==
    [][\A m \in Modules :
         (IsSetupStep(m) /\ Cardinality(ValidFolders) = 1) =>
            /\ raised' = "none"
            /\ train_files'[m] = <<RecordOf(CHOOSE P \in ValidFolders : TRUE)>>
            /\ val_files'[m] = <<>>]_vars

\* C3: setup() raises FileNotFoundError exactly when the root has no
\* subdirectory, and runs to completion otherwise; nothing else is raised.
C3_TwoOutcomes ==
    [][\A m \in Modules :
         IsSetupStep(m) =>
            IF Subdirectories = {}
            THEN raised' = "FileNotFoundError"
            ELSE raised' = "none"]_vars

\* C4: on a root with no subdirectory (empty, or holding plain files only)
\* setup() raises FileNotFoundError and leaves train_files and val_files as
\* they were, which is empty on a module no setup() has completed on.
C4_NoDataFound ==
    [][\A m \in Modules :
         (IsSetupStep(m) /\ Subdirectories = {}) =>
            /\ raised' = "FileNotFoundError"
            /\ train_files'[m] = train_files[m]
            /\ val_files'[m] = val_files[m]
            /\ ~scanned[m].done =>
                  train_files'[m] = <<>> /\ val_files'[m] = <<>>]_vars

\* setup() has failed on a root holding a plain file and no folder, on a
\* module that holds the split of an earlier root.
C4_Witness ==
    /\ AfterSetup("dm") /\ raised = "FileNotFoundError"
    /\ Subdirectories = {}
    /\ \E p \in Patients : fs[p].kind = "file"
    /\ scanned["dm"].done /\ train_files["dm"] # <<>>

\* C5: on a root with a patient folder that lacks its -t1n or its -seg file,
\* setup() raises no error, the two lists hold exactly the records of the
\* folders that have both files (whatever other files they have), and so one
\* record fewer for each folder that lacks one.
C5_SilentOmission ==
    [][\A m \in Modules :
         (IsSetupStep(m) /\ Subdirectories \ ValidFolders # {}) =>
            /\ raised' = "none"
            /\ Range(train_files'[m]) \cup Range(val_files'[m])
                  = {RecordOf(P) : P \in ValidFolders}
            /\ Len(train_files'[m]) + Len(val_files'[m])
                  = Cardinality(Subdirectories)
                      - Cardinality(Subdirectories \ ValidFolders)]_vars

\* C6: after every setup() that completed, train_files and val_files
\* partition the valid records of the scanned root: each valid record is in
\* exactly one of the lists, once, and the lists hold nothing else.
C6_Partition ==
    \A m \in Modules :
        scanned[m].done =>
            LET all == train_files[m] \o val_files[m]
            IN  /\ NoDuplicates(all)
                /\ Range(all) = {RecordOf(P) : P \in scanned[m].valid}

\* setup() has completed on a root with a folder that fails the file test.
C6_Witness ==
    /\ AfterSetup("dm") /\ raised = "none"
    /\ scanned["dm"].valid = ValidFolders
    /\ Subdirectories \ ValidFolders # {}
    /\ Len(train_files["dm"]) + Len(val_files["dm"]) = Cardinality(ValidFolders)

\* C7: two setup() calls that completed on the same root contents, on one
\* module or on two, leave identical train_files and identical val_files
\* (same records, same order), whatever order the filesystem listed the
\* entries in.
C7_Determinism ==
    \A a, b \in Modules :
        (scanned[a].done /\ scanned[b].done /\ scanned[a].valid = scanned[b].valid) =>
            /\ train_files[a] = train_files[b]
            /\ val_files[a] = val_files[b]

\* Both modules have completed setup() on a root of three valid folders.
C7_Witness ==
    /\ scanned["dm"].done /\ scanned["dm2"].done
    /\ Cardinality(ValidFolders) = 3
    /\ Len(train_files["dm"]) = 2 /\ Len(train_files["dm2"]) = 2

\* C8: val_dataloader() returns a loader of batch size 1, not shuffled, over
\* val_files; train_dataloader() returns a loader of the configured
\* batch_size, shuffled, over train_files.
C8_Loaders ==
    loader # <<>> =>
        LET l == loader[1]
            m == call.self
        IN  /\ call.op \in {"train_dataloader", "val_dataloader"}
            /\ call.op = "train_dataloader" =>
                  /\ l.batch_size = batch_size[m]
                  /\ l.shuffle
                  /\ l.data = train_files[m]
            /\ call.op = "val_dataloader" =>
                  /\ l.batch_size = 1
                  /\ ~l.shuffle
                  /\ l.data = val_files[m]

\* val_dataloader() has returned on a module configured with batch_size 2
\* that holds a split.
C8_Witness ==
    /\ call.op = "val_dataloader" /\ loader # <<>>
    /\ batch_size[call.self] = 2
    /\ val_files[call.self] # <<>>
    /\ train_files[call.self] # val_files[call.self]

\* C9: every record of train_files and val_files is, for one patient folder
\* P, the four image paths <root>/P/P-t1n.nii.gz, <root>/P/P-t1c.nii.gz,
\* <root>/P/P-t2w.nii.gz, <root>/P/P-t2f.nii.gz in this order and the label
\* path <root>/P/P-seg.nii.gz.
C9_RecordPaths ==
    \A m \in Modules :
        \A rec \in Range(train_files[m]) \cup Range(val_files[m]) :
            \E P \in Patients :
                /\ Len(rec.image) = 4
                /\ rec.image[1] = PathOf(P, "-t1n.nii.gz")
                /\ rec.image[2] = PathOf(P, "-t1c.nii.gz")
                /\ rec.image[3] = PathOf(P, "-t2w.nii.gz")
                /\ rec.image[4] = PathOf(P, "-t2f.nii.gz")
                /\ rec.label = PathOf(P, "-seg.nii.gz")

\* The lists hold the records of two different folders, one of them without
\* its -t1c, -t2w and -t2f files.
C9_Witness ==
    /\ AfterSetup("dm") /\ raised = "none"
    /\ Cardinality(Range(train_files["dm"]) \cup Range(val_files["dm"])) >= 2
    /\ \E P \in ValidFolders : fs[P].files = {T1N, SEG}

\* C10: in every state the two lists of a module are both the initial empty
\* lists (no setup() has completed) or both the split of the most recent
\* setup() that completed; and a step changes a list only when it is a
\* setup() that completes, so that a setup() that fails leaves both as
\* they were.
C10_SameScan ==
    /\ [](\A m \in Modules :
            IF scanned[m].done
            THEN /\ train_files[m] # <<>> /\ val_files[m] # <<>>
                 /\ Range(train_files[m]) \cup Range(val_files[m])
                       = {RecordOf(P) : P \in scanned[m].valid}
                 /\ Range(train_files[m]) \cap Range(val_files[m]) = {}
            ELSE train_files[m] = <<>> /\ val_files[m] = <<>>)
    /\ [][\A m \in Modules :
            (train_files'[m] # train_files[m] \/ val_files'[m] # val_files[m]) =>
                /\ IsSetupStep(m)
                /\ raised' = "none"
                /\ scanned'[m] = [done |-> TRUE, valid |-> ValidFolders]]_vars

\* setup() has failed on the split (one valid folder) on a module that holds
\* the split of an earlier root with other folders.
C10_Witness ==
    /\ AfterSetup("dm") /\ raised = "ValueError"
    /\ scanned["dm"].done
    /\ scanned["dm"].valid # ValidFolders
    /\ train_files["dm"] # <<>> /\ val_files["dm"] # <<>>

====
